---- MODULE Spec2Model ----
(***************************************************************************)
(* A model of generate_csvs.py: the text cleaner clean_diff_text, the      *)
(* batch writer export_table_to_csv, the five steps of main, and the       *)
(* Task 5 merge with its keyword classifier.                                *)
(*                                                                         *)
(* A Python value is a tagged record: None, Str(<<characters>>), Num(n) or *)
(* Dict(d).     A character is a one-character string; a character that    *)
(* has no printable form is written by its name ("NUL", "NBSP", ...).      *)
(***************************************************************************)
EXTENDS Integers, Sequences, FiniteSets, TLC

VARIABLES
    cd_pc,      \* clean_diff_text harness: "start", "once", "twice"
    cd_s,       \* the argument of clean_diff_text
    cd_r1,      \* clean_diff_text(cd_s)
    cd_r2,      \* clean_diff_text(cd_r1)
    ex_pc,      \* one call of export_table_to_csv: "loop", "returned"
    ex_table,   \* table_name
    ex_dataset, \* dataset: the sequence of examples the for loop iterates
    ex_batch,   \* batch_size
    ex_i,       \* how many examples the for loop has taken
    rows,       \* the local rows
    count,      \* the local count
    first_write,\* the local first_write
    ex_file,    \* the file at outpath
    ex_file0,   \* the file at outpath when the call began
    ex_writes,  \* the lines each to_csv call of this call appended
    pc,         \* main: the step to run next, "done" or "crashed"
    args_batch_size, \* args.batch_size
    ds,         \* the four tables load_dataset returned
    fs,         \* the files of the output directory: t1 .. t5
    df_pr,      \* the data frames of Task 5
    df_pr_task,
    df_task_best,
    df_merged,
    trace,      \* what main has printed, read and written, in order
    runs        \* how many times the program has been started

cleanVars == <<cd_pc, cd_s, cd_r1, cd_r2>>
exportVars == <<ex_pc, ex_table, ex_dataset, ex_batch, ex_i, rows, count,
                first_write, ex_file, ex_file0, ex_writes>>
mainVars == <<pc, args_batch_size, ds, fs, df_pr, df_pr_task, df_task_best,
              df_merged, trace, runs>>
vars == <<cleanVars, exportVars, mainVars>>

(***************************************************************************)
(* Python values                                                           *)
(***************************************************************************)
None == [t |-> "none"]
Str(s) == [t |-> "str", v |-> s]
Num(n) == [t |-> "num", v |-> n]
Dict(d) == [t |-> "dict", d |-> d]

IsStr(x) == x.t = "str"

\* All sequences over S of length 0..n.
SeqsUpTo(S, n) == UNION {[1..k -> S] : k \in 0..n}

(***************************************************************************)
(* Characters                                                              *)
(***************************************************************************)
TAB == "\t"
LF == "\n"
CR == "\r"
SP == " "
NUL == "NUL"        \* \x00, a control character that is not whitespace
NBSP == "NBSP"      \* \xa0, a non-ASCII whitespace character
QUOTE == "QUOTE"    \* \x22, the double quote
BACKSLASH == "BACKSLASH"    \* \x5c
BACKTICK == "BACKTICK"      \* \x60

\* \x20-\x7E
PrintableAscii ==
    {" ", "!", QUOTE, "#", "$", "%", "&", "'", "(", ")", "*", "+", ",", "-",
     ".", "/", "0", "1", "2", "3", "4", "5", "6", "7", "8", "9", ":", ";",
     "<", "=", ">", "?", "@",
     "A", "B", "C", "D", "E", "F", "G", "H", "I", "J", "K", "L", "M",
     "N", "O", "P", "Q", "R", "S", "T", "U", "V", "W", "X", "Y", "Z",
     "[", BACKSLASH, "]", "^", "_", BACKTICK,
     "a", "b", "c", "d", "e", "f", "g", "h", "i", "j", "k", "l", "m",
     "n", "o", "p", "q", "r", "s", "t", "u", "v", "w", "x", "y", "z",
     "{", "|", "}", "~"}

\* The characters str.strip() removes (str.isspace), among those modelled.
Whitespace == {SP, TAB, LF, CR, NBSP}

(***************************************************************************)
(* str methods and re.sub, on sequences of characters                      *)
(***************************************************************************)
\* s.replace(a, b) for one-character a and b
ReplaceChar(s, a, b) == [i \in 1..Len(s) |-> IF s[i] = a THEN b ELSE s[i]]

\* s.replace("\r\n", "\n"): left to right, non-overlapping
RECURSIVE ReplaceCRLF(_)
ReplaceCRLF(s) ==
    IF s = <<>> THEN <<>>
    ELSE IF Len(s) >= 2 /\ s[1] = CR /\ s[2] = LF
         THEN <<LF>> \o ReplaceCRLF(SubSeq(s, 3, Len(s)))
         ELSE <<s[1]>> \o ReplaceCRLF(Tail(s))

\* The characters the class [^\x09\x0A\x0D\x20-\x7E] does not match.
KeptChars == {TAB, LF, CR} \cup PrintableAscii

\* re.sub(r"[^\x09\x0A\x0D\x20-\x7E]", "", s)
RemoveNonPrintable(s) == SelectSeq(s, LAMBDA c : c \in KeptChars)

\* The length of the run of line feeds s starts with.
RECURSIVE LeadingLF(_)
LeadingLF(s) ==
    IF s # <<>> /\ s[1] = LF THEN 1 + LeadingLF(Tail(s)) ELSE 0

\* re.sub(r"\n{3,}", "\n\n", s): the quantifier is greedy, so a match is a
\* whole run of three or more line feeds.
RECURSIVE CollapseLF(_)
CollapseLF(s) ==
    IF s = <<>> THEN <<>>
    ELSE LET n == LeadingLF(s) IN
         IF n >= 3 THEN <<LF, LF>> \o CollapseLF(SubSeq(s, n + 1, Len(s)))
         ELSE IF n >= 1 THEN SubSeq(s, 1, n) \o CollapseLF(SubSeq(s, n + 1, Len(s)))
         ELSE <<s[1]>> \o CollapseLF(Tail(s))

RECURSIVE LStrip(_)
LStrip(s) ==
    IF s # <<>> /\ s[1] \in Whitespace THEN LStrip(Tail(s)) ELSE s

RECURSIVE RStrip(_)
RStrip(s) ==
    IF s # <<>> /\ s[Len(s)] \in Whitespace
    THEN RStrip(SubSeq(s, 1, Len(s) - 1))
    ELSE s

\* s.strip()
Strip(s) == LStrip(RStrip(s))

(***************************************************************************)
(* clean_diff_text                                                         *)
(***************************************************************************)
\* A plausible slip: only "\r\n" is normalised, a lone carriage return stays.
CleanStepsKeepCR(s) ==
    LET s1 == ReplaceChar(s, TAB, SP)
        s2 == ReplaceCRLF(s1)
        s3 == RemoveNonPrintable(s2)
        s4 == CollapseLF(s3)
    IN  Strip(s4)

\* A plausible slip: the result is trimmed before the non-printable
\* characters are removed, so whitespace they shielded stays at the ends.
CleanStepsStripFirst(s) ==
    LET s1 == ReplaceChar(s, TAB, SP)
        s2 == ReplaceChar(ReplaceCRLF(s1), CR, LF)
        s3 == Strip(s2)
        s4 == RemoveNonPrintable(s3)
    IN  CollapseLF(s4)

\* Lines 27-31, for s a str.
CleanSteps(s) ==
    LET s1 == ReplaceChar(s, TAB, SP)
        s2 == ReplaceChar(ReplaceCRLF(s1), CR, LF)
        s3 == RemoveNonPrintable(s2)
        s4 == CollapseLF(s3)
    IN  Strip(s4)

clean_diff_text(x) == IF x = None THEN Str(<<>>) ELSE Str(CleanSteps(x.v))

(***************************************************************************)
(* CSV files and export_table_to_csv                                       *)
(*                                                                         *)
(* A file is absent or a sequence of lines; a line is a sequence of cells; *)
(* a cell is text: Str(characters), or Num(n) for the decimal text of n.    *)
(***************************************************************************)
NameChars ==
    [TITLE |-> <<"T", "I", "T", "L", "E">>,
     ID |-> <<"I", "D">>,
     AGENTNAME |-> <<"A", "G", "E", "N", "T", "N", "A", "M", "E">>,
     BODYSTRING |-> <<"B", "O", "D", "Y", "S", "T", "R", "I", "N", "G">>,
     REPOID |-> <<"R", "E", "P", "O", "I", "D">>,
     REPOURL |-> <<"R", "E", "P", "O", "U", "R", "L">>,
     LANG |-> <<"L", "A", "N", "G">>,
     STARS |-> <<"S", "T", "A", "R", "S">>,
     PRID |-> <<"P", "R", "I", "D">>,
     PRTITLE |-> <<"P", "R", "T", "I", "T", "L", "E">>,
     PRREASON |-> <<"P", "R", "R", "E", "A", "S", "O", "N">>,
     PRTYPE |-> <<"P", "R", "T", "Y", "P", "E">>,
     CONFIDENCE |-> <<"C", "O", "N", "F", "I", "D", "E", "N", "C", "E">>,
     PRSHA |-> <<"P", "R", "S", "H", "A">>,
     PRCOMMITMESSAGE |-> <<"P", "R", "C", "O", "M", "M", "I", "T", "M", "E", "S", "S", "A", "G", "E">>,
     PRFILE |-> <<"P", "R", "F", "I", "L", "E">>,
     PRSTATUS |-> <<"P", "R", "S", "T", "A", "T", "U", "S">>,
     PRADDS |-> <<"P", "R", "A", "D", "D", "S">>,
     PRDELSS |-> <<"P", "R", "D", "E", "L", "S", "S">>,
     PRCHANGECOUNT |-> <<"P", "R", "C", "H", "A", "N", "G", "E", "C", "O", "U", "N", "T">>,
     PRDIFF |-> <<"P", "R", "D", "I", "F", "F">>,
     AGENT |-> <<"A", "G", "E", "N", "T">>,
     TYPE |-> <<"T", "Y", "P", "E">>,
     SECURITY |-> <<"S", "E", "C", "U", "R", "I", "T", "Y">>]

Col(out, field, transform) == [out |-> out, field |-> field, transform |-> transform]

\* The columns argument of the four calls in main.
Columns ==
    [all_pull_request |->
        <<Col(NameChars.TITLE, "title", "none"),
          Col(NameChars.ID, "id", "none"),
          Col(NameChars.AGENTNAME, "agent", "agent_name"),
          Col(NameChars.BODYSTRING, "body", "t1_transform_body"),
          Col(NameChars.REPOID, "repo_id", "none"),
          Col(NameChars.REPOURL, "repo_url", "none")>>,
     all_repository |->
        <<Col(NameChars.REPOID, "id", "none"),
          Col(NameChars.LANG, "language", "none"),
          Col(NameChars.STARS, "stars", "none"),
          Col(NameChars.REPOURL, "url", "none")>>,
     pr_task_type |->
        <<Col(NameChars.PRID, "id", "none"),
          Col(NameChars.PRTITLE, "title", "none"),
          Col(NameChars.PRREASON, "reason", "none"),
          Col(NameChars.PRTYPE, "type", "none"),
          Col(NameChars.CONFIDENCE, "confidence", "none")>>,
     pr_commit_details |->
        <<Col(NameChars.PRID, "pr_id", "none"),
          Col(NameChars.PRSHA, "sha", "none"),
          Col(NameChars.PRCOMMITMESSAGE, "message", "none"),
          Col(NameChars.PRFILE, "filename", "none"),
          Col(NameChars.PRSTATUS, "status", "none"),
          Col(NameChars.PRADDS, "additions", "none"),
          Col(NameChars.PRDELSS, "deletions", "none"),
          Col(NameChars.PRCHANGECOUNT, "changes", "none"),
          Col(NameChars.PRDIFF, "patch", "clean_diff_text")>>]

Tables == DOMAIN Columns

\* str(x).replace("\n", " ").strip(), or "" for None
t1_transform_body(x) ==
    IF x = None THEN Str(<<>>)
    ELSE Str(Strip(ReplaceChar(x.v, LF, SP)))

\* x.get("name", "") for a dict x, else x
agent_name(x) ==
    IF x.t = "dict"
    THEN (IF "name" \in DOMAIN x.d THEN x.d["name"] ELSE Str(<<>>))
    ELSE x

\* transform(val) of lines 43-44
ApplyTransform(transform, val) ==
    CASE transform = "none" -> val
      [] transform = "agent_name" -> agent_name(val)
      [] transform = "t1_transform_body" -> t1_transform_body(val)
      [] transform = "clean_diff_text" -> clean_diff_text(val)

\* ex.get(in_field)
Get(ex, in_field) == IF in_field \in DOMAIN ex THEN ex[in_field] ELSE None

\* Lines 40-45: out_row, its values in the order of columns.
OutRow(ex, columns) ==
    [c \in 1..Len(columns) |->
        ApplyTransform(columns[c].transform, Get(ex, columns[c].field))]

\* to_csv writes a missing value as an empty cell.
CsvCell(val) == IF val.t \in {"none", "nan"} THEN Str(<<>>) ELSE val

CsvLine(out_row) == [c \in 1..Len(out_row) |-> CsvCell(out_row[c])]

HeaderLine(columns) == [c \in 1..Len(columns) |-> Str(columns[c].out)]

NoFile == [exists |-> FALSE, lines |-> <<>>]

\* The lines pd.DataFrame(rs).to_csv(..., header=header) produces.
CsvText(rs, columns, header) ==
    (IF header THEN <<HeaderLine(columns)>> ELSE <<>>)
        \o [k \in 1..Len(rs) |-> CsvLine(rs[k])]

\* pd.DataFrame(rs).to_csv(outpath, mode="a", index=False, header=header)
ToCsvAppend(file, rs, columns, header) ==
    [exists |-> TRUE, lines |-> file.lines \o CsvText(rs, columns, header)]

\* A plausible slip: first_write is never cleared.
ExportRowKeepsFirstWrite(st, ex, columns, batch_size) ==
    LET rows1 == Append(st.rows, OutRow(ex, columns)) IN
    IF Len(rows1) >= batch_size
    THEN [rows |-> <<>>, count |-> st.count + 1, first_write |-> st.first_write,
          file |-> ToCsvAppend(st.file, rows1, columns, st.first_write)]
    ELSE [st EXCEPT !.rows = rows1, !.count = st.count + 1]

\* Lines 39-54: one iteration of the for loop, on the locals and the file.
ExportRow(st, ex, columns, batch_size) ==
    LET rows1 == Append(st.rows, OutRow(ex, columns)) IN
    IF Len(rows1) >= batch_size
    THEN [rows |-> <<>>, count |-> st.count + 1, first_write |-> FALSE,
          file |-> ToCsvAppend(st.file, rows1, columns, st.first_write)]
    ELSE [st EXCEPT !.rows = rows1, !.count = st.count + 1]

\* A plausible slip: the rows left after the loop are not written.
ExportFlushMissing(st, columns) == st

\* Lines 56-59: the write after the loop.
ExportFlush(st, columns) ==
    IF st.rows # <<>>
    THEN [st EXCEPT !.file = ToCsvAppend(st.file, st.rows, columns, st.first_write)]
    ELSE st

\* Lines 34-36: the locals at the start of a call.
ExportStart(file) ==
    [rows |-> <<>>, count |-> 0, first_write |-> TRUE, file |-> file]

RECURSIVE ExportLoop(_, _, _, _)
ExportLoop(st, dataset, columns, batch_size) ==
    IF dataset = <<>> THEN st
    ELSE ExportLoop(ExportRow(st, Head(dataset), columns, batch_size),
                    Tail(dataset), columns, batch_size)

\* A whole call of export_table_to_csv: the locals and the file at return.
ExportTable(dataset, columns, file, batch_size) ==
    ExportFlush(ExportLoop(ExportStart(file), dataset, columns, batch_size),
                columns)

(***************************************************************************)
(* Task 5: pandas data frames                                              *)
(*                                                                         *)
(* A data frame is its column names and its rows; a row is a sequence of   *)
(* values in column order; a missing value is NaN.                         *)
(***************************************************************************)
NaN == [t |-> "nan"]

\* The strings read_csv takes for a missing value by default.
NaValues ==
    {<<>>,
     <<"#", "N", "/", "A">>,
     <<"#", "N", "/", "A", " ", "N", "/", "A">>,
     <<"#", "N", "A">>,
     <<"-", "1", ".", "#", "I", "N", "D">>,
     <<"-", "1", ".", "#", "Q", "N", "A", "N">>,
     <<"-", "N", "a", "N">>,
     <<"-", "n", "a", "n">>,
     <<"1", ".", "#", "I", "N", "D">>,
     <<"1", ".", "#", "Q", "N", "A", "N">>,
     <<"<", "N", "A", ">">>,
     <<"N", "/", "A">>,
     <<"N", "A">>,
     <<"N", "U", "L", "L">>,
     <<"N", "a", "N">>,
     <<"N", "o", "n", "e">>,
     <<"n", "/", "a">>,
     <<"n", "a", "n">>,
     <<"n", "u", "l", "l">>}

\* A cell as read_csv(dtype=str) returns it.
ReadCell(cell) == IF cell.t = "str" /\ cell.v \in NaValues THEN NaN ELSE cell

\* Whether pd.read_csv(path) raises: no file, or a file with no line.
Unreadable(file) == ~file.exists \/ file.lines = <<>>

\* pd.read_csv(path, dtype=str): the first line names the columns, every
\* later line is a row (a later header line too).
ReadCsv(file) ==
    [columns |-> [c \in 1..Len(file.lines[1]) |-> file.lines[1][c].v],
     rows |-> [k \in 1..(Len(file.lines) - 1) |->
                 [c \in 1..Len(file.lines[k + 1]) |-> ReadCell(file.lines[k + 1][c])]]]

EmptyFrame == [columns |-> <<>>, rows |-> <<>>]

ColIdx(df, name) == CHOOSE c \in 1..Len(df.columns) : df.columns[c] = name

\* pd.to_numeric(x, errors="coerce") of one cell, then fillna(0.0)
ToNumericFill(cell) == IF cell.t = "num" THEN cell ELSE Num(0)

\* Lines 162-164.
NumericConfidence(df) ==
    LET c == ColIdx(df, NameChars.CONFIDENCE) IN
    [df EXCEPT !.rows =
        [k \in 1..Len(df.rows) |-> [df.rows[k] EXCEPT ![c] = ToNumericFill(df.rows[k][c])]]]

\* s without its k-th element
Without(s, k) == SubSeq(s, 1, k - 1) \o SubSeq(s, k + 1, Len(s))

\* A plausible slip: ascending order.
RECURSIVE SortedOrdersAscending(_, _)
SortedOrdersAscending(rs, c) ==
    IF rs = <<>> THEN {<<>>}
    ELSE UNION {{<<rs[k]>> \o rest : rest \in SortedOrdersAscending(Without(rs, k), c)} :
                  k \in {i \in 1..Len(rs) : \A j \in 1..Len(rs) : rs[i][c].v <= rs[j][c].v}}

\* sort_values(column c, ascending=False): the default sort is not stable,
\* so every arrangement in descending order is a possible result.
RECURSIVE SortedOrders(_, _)
SortedOrders(rs, c) ==
    IF rs = <<>> THEN {<<>>}
    ELSE UNION {{<<rs[k]>> \o rest : rest \in SortedOrders(Without(rs, k), c)} :
                  k \in {i \in 1..Len(rs) : \A j \in 1..Len(rs) : rs[i][c].v >= rs[j][c].v}}

\* The indices drop_duplicates(subset=[column c], keep="first") keeps.
FirstOfKey(rs, c) ==
    {k \in 1..Len(rs) : \A j \in 1..(k - 1) : rs[j][c] # rs[k][c]}

RECURSIVE Pick(_, _, _)
Pick(rs, keep, k) ==
    IF k > Len(rs) THEN <<>>
    ELSE (IF k \in keep THEN <<rs[k]>> ELSE <<>>) \o Pick(rs, keep, k + 1)

\* A plausible slip: the duplicates are not dropped.
DropDuplicatesKeepsAll(rs, c) == rs

\* drop_duplicates(subset=[column c], keep="first")
DropDuplicates(rs, c) == Pick(rs, FirstOfKey(rs, c), 1)

\* Lines 166-169: the possible values of df_task_best.
TaskBest(df) ==
    {[df EXCEPT !.rows = DropDuplicates(sorted, ColIdx(df, NameChars.PRID))] :
        sorted \in SortedOrders(df.rows, ColIdx(df, NameChars.CONFIDENCE))}

\* df[[names]]
Project(df, names) ==
    [columns |-> names,
     rows |-> [k \in 1..Len(df.rows) |->
                 [c \in 1..Len(names) |-> df.rows[k][ColIdx(df, names[c])]]]]

\* The rows of a left merge for one left row: one per right row with the
\* same key, in the right frame's order, or one filled with NaN.
MergeRow(lrow, key, right, rkey) ==
    LET hits == SelectSeq(right.rows, LAMBDA r : r[rkey] = key) IN
    IF hits = <<>>
    THEN <<lrow \o [c \in 1..Len(right.columns) |-> NaN]>>
    ELSE [h \in 1..Len(hits) |-> lrow \o hits[h]]

RECURSIVE MergeRows(_, _, _, _, _)
MergeRows(lrows, lkey, right, rkey, k) ==
    IF k > Len(lrows) THEN <<>>
    ELSE MergeRow(lrows[k], lrows[k][lkey], right, rkey)
            \o MergeRows(lrows, lkey, right, rkey, k + 1)

\* left.merge(right, left_on=left_on, right_on=right_on, how="left")
MergeLeft(left, right, left_on, right_on) ==
    [columns |-> left.columns \o right.columns,
     rows |-> MergeRows(left.rows, ColIdx(left, left_on), right,
                        ColIdx(right, right_on), 1)]

(***************************************************************************)
(* The keyword classifier                                                  *)
(***************************************************************************)
SECURITY_KEYWORDS ==
    {<<"r", "a", "c", "e">>,
     <<"r", "a", "c", "y">>,
     <<"b", "u", "f", "f", "e", "r">>,
     <<"o", "v", "e", "r", "f", "l", "o", "w">>,
     <<"s", "t", "a", "c", "k">>,
     <<"i", "n", "t", "e", "g", "e", "r">>,
     <<"s", "i", "g", "n", "e", "d", "n", "e", "s", "s">>,
     <<"u", "n", "d", "e", "r", "f", "l", "o", "w">>,
     <<"i", "m", "p", "r", "o", "p", "e", "r">>,
     <<"u", "n", "a", "u", "t", "h", "e", "n", "t", "i", "c", "a", "t", "e", "d">>,
     <<"g", "a", "i", "n", " ", "a", "c", "c", "e", "s", "s">>,
     <<"p", "e", "r", "m", "i", "s", "s", "i", "o", "n">>,
     <<"c", "r", "o", "s", "s", " ", "s", "i", "t", "e">>,
     <<"c", "s", "s">>,
     <<"x", "s", "s">>,
     <<"d", "e", "n", "i", "a", "l", " ", "s", "e", "r", "v", "i", "c", "e">>,
     <<"d", "o", "s">>,
     <<"c", "r", "a", "s", "h">>,
     <<"d", "e", "a", "d", "l", "o", "c", "k">>,
     <<"i", "n", "j", "e", "c", "t", "i", "o", "n">>,
     <<"r", "e", "q", "u", "e", "s", "t", " ", "f", "o", "r", "g", "e", "r", "y">>,
     <<"c", "s", "r", "f">>,
     <<"x", "s", "r", "f">>,
     <<"f", "o", "r", "g", "e", "d">>,
     <<"s", "e", "c", "u", "r", "i", "t", "y">>,
     <<"v", "u", "l", "n", "e", "r", "a", "b", "i", "l", "i", "t", "y">>,
     <<"v", "u", "l", "n", "e", "r", "a", "b", "l", "e">>,
     <<"e", "x", "p", "l", "o", "i", "t">>,
     <<"a", "t", "t", "a", "c", "k">>,
     <<"b", "y", "p", "a", "s", "s">>,
     <<"b", "a", "c", "k", "d", "o", "o", "r">>,
     <<"t", "h", "r", "e", "a", "t">>,
     <<"e", "x", "p", "o", "s", "e">>,
     <<"b", "r", "e", "a", "c", "h">>,
     <<"v", "i", "o", "l", "a", "t", "e">>,
     <<"f", "a", "t", "a", "l">>,
     <<"b", "l", "a", "c", "k", "l", "i", "s", "t">>,
     <<"o", "v", "e", "r", "r", "u", "n">>,
     <<"i", "n", "s", "e", "c", "u", "r", "e">>}

UpperCase == <<"A", "B", "C", "D", "E", "F", "G", "H", "I", "J", "K", "L", "M",
               "N", "O", "P", "Q", "R", "S", "T", "U", "V", "W", "X", "Y", "Z">>
LowerCase == <<"a", "b", "c", "d", "e", "f", "g", "h", "i", "j", "k", "l", "m",
               "n", "o", "p", "q", "r", "s", "t", "u", "v", "w", "x", "y", "z">>

LowerOf ==
    [ch \in {UpperCase[i] : i \in 1..Len(UpperCase)} |->
        LowerCase[CHOOSE i \in 1..Len(UpperCase) : UpperCase[i] = ch]]

\* The case folding of re.IGNORECASE, on the characters modelled.
Lower(ch) == IF ch \in DOMAIN LowerOf THEN LowerOf[ch] ELSE ch

\* Whether kw occurs in text at position i, case folded.
MatchesAt(text, kw, i) ==
    /\ i + Len(kw) - 1 <= Len(text)
    /\ \A j \in 1..Len(kw) : Lower(text[i + j - 1]) = Lower(kw[j])

\* SEC_KW_REGEX.search(text) is not None
SearchKeyword(text) ==
    \E kw \in SECURITY_KEYWORDS : \E i \in 1..Len(text) : MatchesAt(text, kw, i)

\* Lines 178-184, on the TITLE and BODYSTRING values of a row.
compute_security_flag(title, body) ==
    LET t1 == IF title # NaN THEN title.v \o <<SP>> ELSE <<>>
        t2 == IF body # NaN THEN t1 \o body.v ELSE t1
    IN  IF SearchKeyword(t2) THEN 1 ELSE 0

\* Line 186: df_merged["SECURITY"] = df_merged.apply(compute_security_flag, axis=1)
WithSecurity(df) ==
    [columns |-> Append(df.columns, NameChars.SECURITY),
     rows |-> [k \in 1..Len(df.rows) |->
                 Append(df.rows[k],
                        Num(compute_security_flag(
                              df.rows[k][ColIdx(df, NameChars.TITLE)],
                              df.rows[k][ColIdx(df, NameChars.BODYSTRING)])))]]

\* Lines 188-194.
FinalFrame(df) ==
    [columns |-> <<NameChars.ID, NameChars.AGENT, NameChars.TYPE,
                   NameChars.CONFIDENCE, NameChars.SECURITY>>,
     rows |-> Project(df, <<NameChars.ID, NameChars.AGENTNAME, NameChars.PRTYPE,
                            NameChars.CONFIDENCE, NameChars.SECURITY>>).rows]

\* final_df.to_csv(t5_path, index=False): the file is written anew.
WriteCsv(df) ==
    [exists |-> TRUE,
     lines |-> <<[c \in 1..Len(df.columns) |-> Str(df.columns[c])]>>
                  \o [k \in 1..Len(df.rows) |-> CsvLine(df.rows[k])]]

(***************************************************************************)
(* main                                                                    *)
(***************************************************************************)
\* A plausible slip: the Task 5 merge placed before the Task 3 export.
ProgramTask5Early ==
    <<"task1", "task2", "t5_read", "t5_best", "t5_merge", "t5_flag", "t5_write",
      "task3", "task4">>

\* The steps of main in the order of its statements.
Program ==
    <<"task1", "task2", "task3", "task4",
      "t5_read", "t5_best", "t5_merge", "t5_flag", "t5_write">>

\* The step that follows step, "done" after the last.
Following(step) ==
    LET k == CHOOSE i \in 1..Len(Program) : Program[i] = step IN
    IF k = Len(Program) THEN "done" ELSE Program[k + 1]

DefaultBatchSize == 5000

NoFiles == [t1 |-> NoFile, t2 |-> NoFile, t3 |-> NoFile, t4 |-> NoFile, t5 |-> NoFile]

\* The output file of each table.
PathOf == [all_pull_request |-> "t1", all_repository |-> "t2",
           pr_task_type |-> "t3", pr_commit_details |-> "t4"]

\* What a call of export_table_to_csv prints.
ExportPrints(table) == <<"Exporting " \o table, "Finished " \o table>>

\* Lines 171-176.
Task5Merge(pr, best) ==
    MergeLeft(pr, Project(best, <<NameChars.PRID, NameChars.PRTYPE, NameChars.CONFIDENCE>>),
              NameChars.ID, NameChars.PRID)

(***************************************************************************)
(* The variables of the parts a specification leaves out stay as set here. *)
(***************************************************************************)
CleanIdle ==
    /\ cd_pc = "idle"
    /\ cd_s = None
    /\ cd_r1 = None
    /\ cd_r2 = None

ExportIdle ==
    /\ ex_pc = "idle"
    /\ ex_table = "none"
    /\ ex_dataset = <<>>
    /\ ex_batch = 0
    /\ ex_i = 0
    /\ rows = <<>>
    /\ count = 0
    /\ first_write = TRUE
    /\ ex_file = NoFile
    /\ ex_file0 = NoFile
    /\ ex_writes = <<>>

MainIdle ==
    /\ pc = "idle"
    /\ args_batch_size = 0
    /\ ds = [t \in Tables |-> <<>>]
    /\ fs = NoFiles
    /\ df_pr = EmptyFrame
    /\ df_pr_task = EmptyFrame
    /\ df_task_best = EmptyFrame
    /\ df_merged = EmptyFrame
    /\ trace = <<>>
    /\ runs = 0

(***************************************************************************)
(* SpecExport: one call of export_table_to_csv, an iteration at a time      *)
(***************************************************************************)
MaxRows == 3
MaxBatch == 3

BatchSizes == -1..MaxBatch

\* Two examples of each table, different in the fields that are transformed.
FirstExample ==
    [all_pull_request |->
        [title |-> Str(<<"f", "i", "x">>), id |-> Num(1),
         agent |-> Str(<<"b", "o", "t">>), body |-> None,
         repo_id |-> Num(7), repo_url |-> Str(<<"u">>)],
     all_repository |->
        [id |-> Num(7), language |-> Str(<<"C">>), stars |-> Num(3),
         url |-> Str(<<"u">>)],
     pr_task_type |->
        [id |-> Num(1), title |-> Str(<<"f", "i", "x">>),
         reason |-> Str(<<"r">>), type |-> Str(<<"f", "i", "x">>),
         confidence |-> Num(1)],
     pr_commit_details |->
        [pr_id |-> Num(1), sha |-> Str(<<"c", "1">>), message |-> Str(<<"m">>),
         filename |-> Str(<<"f">>), status |-> Str(<<"M">>),
         additions |-> Num(1), deletions |-> Num(0), changes |-> Num(1),
         patch |-> Str(<<"+", TAB, "a", CR, LF>>)]]

SecondExample ==
    [all_pull_request |->
        [title |-> None, id |-> Num(2),
         agent |-> Dict([name |-> Str(<<"b", "o", "t">>)]),
         body |-> Str(<<"a", LF, "b", SP>>),
         repo_id |-> Num(7), repo_url |-> Str(<<"u">>)],
     all_repository |->
        [id |-> Num(8), language |-> None, stars |-> Num(0),
         url |-> Str(<<"v">>)],
     pr_task_type |->
        [id |-> Num(2), title |-> Str(<<"a">>),
         reason |-> None, type |-> Str(<<"f", "e", "a", "t">>),
         confidence |-> None],
     pr_commit_details |->
        [pr_id |-> Num(2), sha |-> Str(<<"c", "2">>), message |-> None,
         filename |-> Str(<<"g">>), status |-> Str(<<"A">>),
         additions |-> Num(2), deletions |-> Num(0), changes |-> Num(2),
         patch |-> None]]

Examples == [t \in Tables |-> {FirstExample[t], SecondExample[t]}]

\* What a file at outpath can hold when a call begins: nothing, or what an
\* earlier call for the same table left there.
EarlierFiles(table, dataset) ==
    {ExportTable(d, Columns[table], NoFile, 1).file :
        d \in {<<>>, dataset} \cup SeqsUpTo(Examples[table], 1)}

InitExport ==
    /\ CleanIdle
    /\ MainIdle
    /\ ex_pc = "loop"
    /\ ex_table \in Tables
    /\ ex_dataset \in SeqsUpTo(Examples[ex_table], MaxRows)
    /\ ex_batch \in BatchSizes
    /\ ex_i = 0
    /\ rows = ExportStart(NoFile).rows
    /\ count = ExportStart(NoFile).count
    /\ first_write = ExportStart(NoFile).first_write
    /\ ex_file \in EarlierFiles(ex_table, ex_dataset)
    /\ ex_file0 = ex_file
    /\ ex_writes = <<>>

Locals == [rows |-> rows, count |-> count, first_write |-> first_write,
           file |-> ex_file]

\* The lines a step appended to the file, recorded when it appended any.
Written(before, after) ==
    IF after.lines = before.lines
    THEN ex_writes
    ELSE Append(ex_writes,
                SubSeq(after.lines, Len(before.lines) + 1, Len(after.lines)))

SetLocals(st) ==
    /\ rows' = st.rows
    /\ count' = st.count
    /\ first_write' = st.first_write
    /\ ex_file' = st.file
    /\ ex_writes' = Written(ex_file, st.file)

ExportIterate ==
    /\ ex_pc = "loop"
    /\ ex_i < Len(ex_dataset)
    /\ SetLocals(ExportRow(Locals, ex_dataset[ex_i + 1], Columns[ex_table], ex_batch))
    /\ ex_i' = ex_i + 1
    /\ UNCHANGED <<ex_pc, ex_table, ex_dataset, ex_batch, ex_file0, cleanVars, mainVars>>

ExportReturn ==
    /\ ex_pc = "loop"
    /\ ex_i = Len(ex_dataset)
    /\ SetLocals(ExportFlush(Locals, Columns[ex_table]))
    /\ ex_pc' = "returned"
    /\ UNCHANGED <<ex_i, ex_table, ex_dataset, ex_batch, ex_file0, cleanVars, mainVars>>

NextExport == ExportIterate \/ ExportReturn

SpecExport == InitExport /\ [][NextExport]_vars

\* What this call appended to the file.
Appended == SubSeq(ex_file.lines, Len(ex_file0.lines) + 1, Len(ex_file.lines))

IsHeader(line) == line = HeaderLine(Columns[ex_table])

DataLines(ls) == SelectSeq(ls, LAMBDA l : ~IsHeader(l))

\* The dataset's rows as CSV lines, in input order.
InputLines ==
    [k \in 1..Len(ex_dataset) |-> CsvLine(OutRow(ex_dataset[k], Columns[ex_table]))]

\* C1: for every dataset and every batch_size (1, larger than the dataset,
\* 0, negative), when the call returns the data lines it appended are the
\* input rows, each once and in input order, count is the number of input
\* rows, and rows holds nothing that is not in the file.
C1_EachRowWrittenOnce ==
    ex_pc = "returned" =>
        /\ DataLines(Appended) = InputLines
        /\ count = Len(ex_dataset)
        /\ Len(rows) <= Len(Appended)
        /\ \A k \in 1..Len(rows) :
              CsvLine(rows[k]) = Appended[Len(Appended) - Len(rows) + k]

\* A call that ended with the write after the loop: three rows in batches
\* of two.
C1_Witness ==
    /\ ex_pc = "returned"
    /\ Len(ex_dataset) = 3
    /\ ex_batch = 2
    /\ Len(ex_writes) = 2
    /\ ex_file0.exists

\* C7: in a call, a header line is written only as the first line of the
\* first to_csv call, and a call on a dataset with a row has written it
\* when it returns.
C7_HeaderOnceAndFirst ==
    /\ \A k \in 1..Len(ex_writes) : \A j \in 1..Len(ex_writes[k]) :
          IsHeader(ex_writes[k][j]) => (k = 1 /\ j = 1)
    /\ ex_writes # <<>> => IsHeader(ex_writes[1][1])
    /\ (ex_pc = "returned" /\ Len(ex_dataset) >= 1) =>
          /\ ex_writes # <<>>
          /\ Len(SelectSeq(Appended, IsHeader)) = 1
          /\ IsHeader(Appended[1])

\* A call whose row count is an exact multiple of batch_size, in several
\* batches.
C7_Witness ==
    /\ ex_pc = "returned"
    /\ ex_batch = 1
    /\ Len(ex_dataset) = 3
    /\ Len(ex_writes) = 3

\* C5: after export_table_to_csv returns, a file holding the header line
\* exists at outpath, for every dataset, the empty one included.
C5_FileWithHeaderExists ==
    ex_pc = "returned" =>
        /\ ex_file.exists
        /\ \E j \in 1..Len(ex_file.lines) : IsHeader(ex_file.lines[j])

\* C9: after the call the file is what it held before, followed by this
\* call's header and rows (so a second export of the same dataset into the
\* same file leaves two header lines and every row twice).
C9_AppendsHeaderAndRows ==
    ex_pc = "returned" =>
        ex_file.lines = ex_file0.lines \o <<HeaderLine(Columns[ex_table])>> \o InputLines

(***************************************************************************)
(* SpecClean: clean_diff_text applied to an argument, then to its result   *)
(***************************************************************************)
MaxLen == 4

CleanAlphabet == {TAB, CR, LF, SP, "a", NUL, NBSP}

CleanInputs == {None} \cup {Str(s) : s \in SeqsUpTo(CleanAlphabet, MaxLen)}

InitClean ==
    /\ ExportIdle
    /\ MainIdle
    /\ cd_pc = "start"
    /\ cd_s \in CleanInputs
    /\ cd_r1 = None
    /\ cd_r2 = None

CleanOnce ==
    /\ cd_pc = "start"
    /\ cd_r1' = clean_diff_text(cd_s)
    /\ cd_pc' = "once"
    /\ UNCHANGED <<cd_s, cd_r2, exportVars, mainVars>>

CleanTwice ==
    /\ cd_pc = "once"
    /\ cd_r2' = clean_diff_text(cd_r1)
    /\ cd_pc' = "twice"
    /\ UNCHANGED <<cd_s, cd_r1, exportVars, mainVars>>

NextClean == CleanOnce \/ CleanTwice

SpecClean == InitClean /\ [][NextClean]_vars

\* The longest run of consecutive line feeds in s.
RECURSIVE MaxLFRun(_)
MaxLFRun(s) ==
    IF s = <<>> THEN 0
    ELSE LET n == LeadingLF(s) IN
         IF n = 0 THEN MaxLFRun(Tail(s))
         ELSE LET m == MaxLFRun(SubSeq(s, n + 1, Len(s))) IN
              IF n > m THEN n ELSE m

C10_CleanIdempotent ==
    cd_pc = "twice" => cd_r2 = cd_r1

\* A second pass over a non-empty result that differs from its argument.
C10_Witness ==
    /\ cd_pc = "twice"
    /\ cd_s # None
    /\ cd_r1 # cd_s
    /\ Len(cd_r1.v) >= 2
    /\ \E i \in 1..Len(cd_r1.v) : cd_r1.v[i] = LF

(***************************************************************************)
(* The steps of main                                                       *)
(***************************************************************************)
\* Lines 87-154: one of the four calls of export_table_to_csv.
Task(step, table) ==
    /\ pc = step
    /\ fs' = [fs EXCEPT ![PathOf[table]] =
                ExportTable(ds[table], Columns[table], fs[PathOf[table]], args_batch_size).file]
    /\ trace' = trace \o ExportPrints(table)
    /\ pc' = Following(step)
    /\ UNCHANGED <<args_batch_size, ds, df_pr, df_pr_task, df_task_best, df_merged, runs,
                   cleanVars, exportVars>>

Task1 == Task("task1", "all_pull_request")
Task2 == Task("task2", "all_repository")
Task3 == Task("task3", "pr_task_type")
Task4 == Task("task4", "pr_commit_details")

\* Lines 157-164: read_csv raises when a file is missing, and main ends there.
T5Read ==
    /\ pc = "t5_read"
    /\ IF Unreadable(fs.t1)
       THEN /\ pc' = "crashed"
            /\ trace' = trace \o <<"Building Task-5">>
            /\ UNCHANGED <<df_pr, df_pr_task>>
       ELSE IF Unreadable(fs.t3)
       THEN /\ pc' = "crashed"
            /\ trace' = trace \o <<"Building Task-5", "read t1">>
            /\ df_pr' = ReadCsv(fs.t1)
            /\ UNCHANGED df_pr_task
       ELSE /\ pc' = Following("t5_read")
            /\ trace' = trace \o <<"Building Task-5", "read t1", "read t3">>
            /\ df_pr' = ReadCsv(fs.t1)
            /\ df_pr_task' = NumericConfidence(ReadCsv(fs.t3))
    /\ UNCHANGED <<args_batch_size, ds, fs, df_task_best, df_merged, runs,
                   cleanVars, exportVars>>

\* Lines 166-169.
T5Best ==
    /\ pc = "t5_best"
    /\ df_task_best' \in TaskBest(df_pr_task)
    /\ pc' = Following("t5_best")
    /\ UNCHANGED <<args_batch_size, ds, fs, df_pr, df_pr_task, df_merged, trace, runs,
                   cleanVars, exportVars>>

\* Lines 171-176.
T5Merge ==
    /\ pc = "t5_merge"
    /\ df_merged' = Task5Merge(df_pr, df_task_best)
    /\ pc' = Following("t5_merge")
    /\ UNCHANGED <<args_batch_size, ds, fs, df_pr, df_pr_task, df_task_best, trace, runs,
                   cleanVars, exportVars>>

\* Lines 178-186.
T5Flag ==
    /\ pc = "t5_flag"
    /\ df_merged' = WithSecurity(df_merged)
    /\ pc' = Following("t5_flag")
    /\ UNCHANGED <<args_batch_size, ds, fs, df_pr, df_pr_task, df_task_best, trace, runs,
                   cleanVars, exportVars>>

\* Lines 188-200.
T5Write ==
    /\ pc = "t5_write"
    /\ fs' = [fs EXCEPT !.t5 = WriteCsv(FinalFrame(df_merged))]
    /\ trace' = trace \o <<"write t5", "Task-5 written", "ALL TASKS COMPLETE SUCCESSFULLY">>
    /\ pc' = Following("t5_write")
    /\ UNCHANGED <<args_batch_size, ds, df_pr, df_pr_task, df_task_best, df_merged, runs,
                   cleanVars, exportVars>>

(***************************************************************************)
(* Spec: the program run on small tables, and run again on the same output *)
(* directory                                                               *)
(***************************************************************************)
MaxMainRows == 1
MaxRuns == 2

MainBatchSizes == {1, DefaultBatchSize}

\* The rows the tables of a run are made of.
MainExamples == [t \in Tables |-> {FirstExample[t]}]

Init ==
    /\ CleanIdle
    /\ ExportIdle
    /\ pc = Program[1]
    /\ args_batch_size \in MainBatchSizes
    /\ \E pr \in SeqsUpTo(MainExamples.all_pull_request, MaxMainRows),
          repo \in SeqsUpTo(MainExamples.all_repository, MaxMainRows),
          task \in SeqsUpTo(MainExamples.pr_task_type, MaxMainRows),
          commit \in SeqsUpTo(MainExamples.pr_commit_details, MaxMainRows) :
            ds = [all_pull_request |-> pr, all_repository |-> repo,
                  pr_task_type |-> task, pr_commit_details |-> commit]
    /\ fs = NoFiles
    /\ df_pr = EmptyFrame
    /\ df_pr_task = EmptyFrame
    /\ df_task_best = EmptyFrame
    /\ df_merged = EmptyFrame
    /\ trace = <<>>
    /\ runs = 1

\* The program is started again: the files stay, everything else is new.
Restart ==
    /\ pc \in {"done", "crashed"}
    /\ runs < MaxRuns
    /\ runs' = runs + 1
    /\ pc' = Program[1]
    /\ args_batch_size' \in MainBatchSizes
    /\ df_pr' = EmptyFrame
    /\ df_pr_task' = EmptyFrame
    /\ df_task_best' = EmptyFrame
    /\ df_merged' = EmptyFrame
    /\ trace' = <<>>
    /\ UNCHANGED <<ds, fs, cleanVars, exportVars>>

Next ==
    \/ Task1 \/ Task2 \/ Task3 \/ Task4
    \/ T5Read \/ T5Best \/ T5Merge \/ T5Flag \/ T5Write
    \/ Restart

Spec == Init /\ [][Next]_vars

\* Whether s is t or a start of it.
IsPrefix(s, t) == Len(s) <= Len(t) /\ s = SubSeq(t, 1, Len(s))

\* What one complete run prints, reads and writes, in order.
FullTrace ==
    <<"Exporting all_pull_request", "Finished all_pull_request",
      "Exporting all_repository", "Finished all_repository",
      "Exporting pr_task_type", "Finished pr_task_type",
      "Exporting pr_commit_details", "Finished pr_commit_details",
      "Building Task-5", "read t1", "read t3",
      "write t5", "Task-5 written", "ALL TASKS COMPLETE SUCCESSFULLY">>

AfterExports(fsx, dsx, b) ==
    [t \in DOMAIN fsx |->
        IF \E tb \in Tables : PathOf[tb] = t
        THEN LET tb == CHOOSE x \in Tables : PathOf[x] = t IN
             ExportTable(dsx[tb], Columns[tb], fsx[t], b).file
        ELSE fsx[t]]

\* What the four exports print.
ExportsTrace ==
    ExportPrints("all_pull_request") \o ExportPrints("all_repository")
        \o ExportPrints("pr_task_type") \o ExportPrints("pr_commit_details")

\* The Task 5 files a run can write from the task files fsx.
Reports(fsx) ==
    {WriteCsv(FinalFrame(WithSecurity(Task5Merge(ReadCsv(fsx.t1), best)))) :
        best \in TaskBest(NumericConfidence(ReadCsv(fsx.t3)))}

\* The output directory after a complete run on the tables dsx.
FilesAfterRun(dsx) ==
    LET f == AfterExports(NoFiles, dsx, DefaultBatchSize) IN
    {[f EXCEPT !.t5 = r] : r \in Reports(f)}

PullRequest(id, title, body) ==
    [title |-> title, id |-> Num(id), agent |-> Str(<<"b", "o", "t">>),
     body |-> body, repo_id |-> Num(7), repo_url |-> Str(<<"u">>)]

TaskType(id, type, confidence) ==
    [id |-> Num(id), title |-> Str(<<"a">>), reason |-> None,
     type |-> type, confidence |-> confidence]

\* The tables of an earlier run.
EarlierTables ==
    [all_pull_request |-> <<PullRequest(1, Str(<<"o", "l", "d">>), None)>>,
     all_repository |-> <<>>,
     pr_task_type |-> <<TaskType(1, Str(<<"d", "o", "c", "s">>), Num(3))>>,
     pr_commit_details |-> <<>>]

EarlierRunFiles == FilesAfterRun(EarlierTables)

\* The program at the start of Task 5, in its first run or in a second one
\* into the directory of an earlier run.
AtTask5(pr, task) ==
    /\ CleanIdle
    /\ ExportIdle
    /\ pc = "t5_read"
    /\ args_batch_size = DefaultBatchSize
    /\ ds = [all_pull_request |-> pr, all_repository |-> <<>>,
             pr_task_type |-> task, pr_commit_details |-> <<>>]
    /\ runs \in 1..2
    /\ \E f0 \in (IF runs = 1 THEN {NoFiles} ELSE EarlierRunFiles) :
          fs = AfterExports(f0, ds, args_batch_size)
    /\ df_pr = EmptyFrame
    /\ df_pr_task = EmptyFrame
    /\ df_task_best = EmptyFrame
    /\ df_merged = EmptyFrame
    /\ trace = ExportsTrace

NextTask5 == T5Read \/ T5Best \/ T5Merge \/ T5Flag \/ T5Write

(***************************************************************************)
(* SpecMerge: Task 5 on pull requests with no, one or several task types   *)
(***************************************************************************)
MaxPR == 2
MaxTask == 2

MergeIds == {1, 2}

PRRows == {PullRequest(i, Str(<<"D", "o", "S">>), None) : i \in MergeIds}

TaskRows ==
    {TaskType(i, tc[1], tc[2]) :
        i \in MergeIds,
        tc \in {<<Str(<<"f", "i", "x">>), None>>,
                <<Str(<<"f", "i", "x">>), Num(2)>>,
                <<Str(<<"f", "e", "a", "t">>), Num(1)>>,
                <<Str(<<"f", "e", "a", "t">>), Num(2)>>}}

InitMerge ==
    \E pr \in SeqsUpTo(PRRows, MaxPR), task \in SeqsUpTo(TaskRows, MaxTask) :
        AtTask5(pr, task)

SpecMerge == InitMerge /\ [][NextTask5]_vars

\* The rows of the three files: every line after the first.
T1Rows == Tail(fs.t1.lines)
T3Rows == Tail(fs.t3.lines)
T5Rows == Tail(fs.t5.lines)

\* The Task 3 rows whose PRID is the ID of Task 1 row k.
TaskRowsOf(k) == {j \in 1..Len(T3Rows) : T3Rows[j][1] = T1Rows[k][2]}

\* The confidence of a Task 3 row, 0 when missing or not a number.
ConfidenceOf(j) == IF T3Rows[j][5].t = "num" THEN T3Rows[j][5].v ELSE 0

\* C3: the report has one row per row of the Task 1 file, in the same order
\* (the same ID and agent), whatever the number of Task 3 rows with that
\* PRID; with none, TYPE and CONFIDENCE are empty.
C3_OneRowPerPullRequest ==
    pc = "done" =>
        /\ Len(T5Rows) = Len(T1Rows)
        /\ \A k \in 1..Len(T5Rows) :
              /\ T5Rows[k][1] = T1Rows[k][2]
              /\ T5Rows[k][2] = T1Rows[k][3]
              /\ TaskRowsOf(k) = {} =>
                    /\ T5Rows[k][3] = Str(<<>>)
                    /\ T5Rows[k][4] = Str(<<>>)

\* A report on a pull request with several task types and one with none.
C3_Witness ==
    /\ pc = "done"
    /\ \E k \in 1..Len(T1Rows) : Cardinality(TaskRowsOf(k)) >= 2
    /\ \E k \in 1..Len(T1Rows) : TaskRowsOf(k) = {}
    /\ \E k \in 1..Len(T1Rows) : Cardinality(TaskRowsOf(k)) = 1

\* C6: for a pull request with a Task 3 row, TYPE and CONFIDENCE of its
\* report row are those of one Task 3 row with its PRID, whose confidence
\* is at least that of every Task 3 row with that PRID.
C6_BestTaskType ==
    pc = "done" =>
        \A k \in 1..Len(T5Rows) :
            (k <= Len(T1Rows) /\ TaskRowsOf(k) # {}) =>
                \E j \in TaskRowsOf(k) :
                    /\ T5Rows[k][3] = T3Rows[j][4]
                    /\ T5Rows[k][4] = Num(ConfidenceOf(j))
                    /\ \A i \in TaskRowsOf(k) : ConfidenceOf(j) >= ConfidenceOf(i)

\* A pull request whose best task type is not the first of its rows in the
\* file, and is of another type than the first.
C6_Witness ==
    /\ pc = "done"
    /\ \E k \in 1..Len(T1Rows) : \E i, j \in TaskRowsOf(k) :
          /\ i < j
          /\ ConfidenceOf(i) < ConfidenceOf(j)
          /\ T3Rows[i][4] # T3Rows[j][4]
          /\ T5Rows[k][3] = T3Rows[j][4]

(***************************************************************************)
(* SpecFlag: Task 5 on one pull request, over titles and bodies            *)
(***************************************************************************)
MaxWords == 2

Fragments == {<<"g", "a", "i", "n">>, <<"a", "c", "c", "e", "s", "s">>, <<SP>>,
              <<"D", "o", "S">>, <<"N", "A">>, <<"x">>}

RECURSIVE Concat(_)
Concat(ws) == IF ws = <<>> THEN <<>> ELSE Head(ws) \o Concat(Tail(ws))

FlagTexts == {None} \cup {Str(Concat(ws)) : ws \in SeqsUpTo(Fragments, MaxWords)}

InitFlag ==
    \E title \in FlagTexts, body \in FlagTexts :
        /\ AtTask5(<<PullRequest(1, title, body)>>,
                   <<TaskType(1, Str(<<"f", "i", "x">>), Num(1))>>)
        /\ runs = 1

SpecFlag == InitFlag /\ [][NextTask5]_vars

\* The text of a cell of the Task 1 file, empty when read_csv takes it for
\* a missing value.
TextOf(cell) == IF ReadCell(cell) = NaN \/ cell.t # "str" THEN <<>> ELSE cell.v

\* C4: SECURITY is 0 or 1, and 1 exactly when a keyword occurs, in any
\* case, in the TITLE or in the BODYSTRING of the row.
C4_SecurityIffKeyword ==
    pc = "done" =>
        \A k \in 1..Len(T5Rows) :
            /\ T5Rows[k][5] \in {Num(0), Num(1)}
            /\ T5Rows[k][5] = Num(1) <=>
                  (SearchKeyword(TextOf(T1Rows[k][1])) \/ SearchKeyword(TextOf(T1Rows[k][4])))

====
